---- MODULE Spec2Model ----
(***************************************************************************)
(* Model of the keymaster HTTP service: the /api/calibrate and             *)
(* /api/analyze handlers of keymaster_api.py and the basic-auth gate of    *)
(* auth.py.  Requests are served concurrently, one worker per request; a   *)
(* handler is split at its logging calls so that the workers interleave.   *)
(*                                                                         *)
(* Numbers.  rmse is a float in the code; it is modelled as the decimal    *)
(* literal of the JSON request in units of 1e-6 (0.0012 is 1200).  The     *)
(* values of RmseValues are no decimal ties at the fourth place, so the    *)
(* correctly rounded "%.4f" of the nearest double is the nearest multiple  *)
(* of 1e-4.  transform_elements holds the floats 1.0 and 0.0, written 1    *)
(* and 0.                                                                  *)
(*                                                                         *)
(* The "except Exception" branches of calibrate and analyze (status 500)   *)
(* are unreachable: neither the construction of the fixed result nor the   *)
(* formatting of a float can raise.  They have no action.                  *)
(***************************************************************************)
EXTENDS Integers, Sequences, FiniteSets, TLC

\* ---------------------------------------------------------------- bounds
MaxPoints == 3

\* ---------------------------------------------------------------- inputs
Workers == {"w1", "w2"}

Points == { [x |-> 1, y |-> 2, z |-> 3], [x |-> 4, y |-> 5, z |-> 6] }

PointSeqs == { [i \in 1..n |-> p] : n \in 0..MaxPoints, p \in Points }

CalibrationRequests ==
    { [kind |-> "calibrate", arw_points |-> a, rwp_points |-> r] :
        a \in PointSeqs, r \in PointSeqs }

RmseValues == { -40, 0, 1200, 1251, 999951 }

Identity4 == [i \in 1..16 |-> IF i \in {1, 6, 11, 16} THEN 1 ELSE 0]

ResultVariants ==
    { << Identity4, "python", 1 >>,
      << [i \in 1..16 |-> 0], "cpp", MaxPoints >>,
      << [i \in 1..15 |-> 0], "python", 1 >> }

Prompts == { "Analyze this result.", "" }

AnalysisRequests ==
    { [kind |-> "analyze",
       result |-> [rmse |-> r, transform_elements |-> v[1],
                   source_platform |-> v[2], num_points_used |-> v[3]],
       prompt |-> p] :
        r \in RmseValues, v \in ResultVariants, p \in Prompts }

Usernames == { "admin", "root", "" }
Passwords == { "password123", "admin", "" }

Credentials ==
    { [kind |-> "protected", username |-> u, password |-> p] :
        u \in Usernames, p \in Passwords }

NoReq == [kind |-> "none"]
NoResp == [status |-> 0]
NoLocal == [none |-> TRUE]

\* ----------------------------------------------------------------- state
VARIABLES users, pc, req, locals, resp, lastLog, overlapped

vars == << users, pc, req, locals, resp, lastLog, overlapped >>

InFlight(w) == pc[w] \notin {"idle", "done"}

\* ---------------------------------------------------- keymaster_api.py
\* [1.0 if i % 5 == 0 else 0.0 for i in range(16)]; index i of the code is
\* index i + 1 here.
TransformElements_short == [i \in 1..15 |-> IF (i - 1) % 5 = 0 THEN 1 ELSE 0]

TransformElements_mod4 == [i \in 1..16 |-> IF (i - 1) % 4 = 0 THEN 1 ELSE 0]

TransformElements == [i \in 1..16 |-> IF (i - 1) % 5 = 0 THEN 1 ELSE 0]

MockResult_rwp(request) ==
    [rmse |-> 1200,
     transform_elements |-> TransformElements,
     source_platform |-> "python",
     num_points_used |-> Len(request.rwp_points)]

MockResult_cached(request) ==
    [rmse |-> IF lastLog = "none" THEN 1200 ELSE 0,
     transform_elements |-> TransformElements,
     source_platform |-> "python",
     num_points_used |-> Len(request.arw_points)]

MockResult_validating(request) ==
    IF Len(request.arw_points) < 3
    THEN [error |-> "InsufficientPoints"]
    ELSE [rmse |-> 1200,
          transform_elements |-> TransformElements,
          source_platform |-> "python",
          num_points_used |-> Len(request.arw_points)]

MockResult(request) ==
    [rmse |-> 1200,
     transform_elements |-> TransformElements,
     source_platform |-> "python",
     num_points_used |-> Len(request.arw_points)]

\* "%.4f" of a value given in units of 1e-6.
Abs(n) == IF n < 0 THEN 0 - n ELSE n

Fixed4(q) ==
    ToString(q \div 10000) \o "." \o ToString((q \div 1000) % 10)
      \o ToString((q \div 100) % 10) \o ToString((q \div 10) % 10)
      \o ToString(q % 10)

Format4f_trunc(rmse) ==
    (IF rmse < 0 THEN "-" ELSE "") \o Fixed4(Abs(rmse) \div 100)

Format4f(rmse) ==
    (IF rmse < 0 THEN "-" ELSE "") \o Fixed4((Abs(rmse) + 50) \div 100)

AnalysisText_logged(request) ==
    IF lastLog = "calibrate_received"
    THEN "AI Analysis: The received RMSE is " \o Format4f(1200)
           \o ". Data parsed successfully."
    ELSE "AI Analysis: The received RMSE is "
           \o Format4f(request.result.rmse) \o ". Data parsed successfully."

AnalysisText(request) ==
    "AI Analysis: The received RMSE is " \o Format4f(request.result.rmse)
      \o ". Data parsed successfully."

\* CalibrationResultModel.transform_elements: min_items=16, max_items=16.
ValidResult(result) == Len(result.transform_elements) = 16

\* -------------------------------------------------------------- auth.py
CompareDigest(a, b) == a = b

CorrectCredentials_either(credentials) ==
    CompareDigest(credentials.username, "admin")
      \/ CompareDigest(credentials.password, users["admin"])

CorrectCredentials(credentials) ==
    CompareDigest(credentials.username, "admin")
      /\ CompareDigest(credentials.password, users["admin"])

Unauthorized ==
    [status |-> 401,
     body |-> [detail |-> "Incorrect username or password"],
     headers |-> [WWWAuthenticate |-> "Basic"]]

Greeting(username) ==
    [message |-> "Hello, " \o username \o ". You are authenticated."]

\* ------------------------------------------------------------- actions
Init ==
    /\ users = [u \in {"admin"} |-> "password123"]
    /\ pc = [w \in Workers |-> "idle"]
    /\ req = [w \in Workers |-> NoReq]
    /\ locals = [w \in Workers |-> NoLocal]
    /\ resp = [w \in Workers |-> NoResp]
    /\ lastLog = "none"
    /\ overlapped = [w \in Workers |-> FALSE]

\* A request is dispatched to the free worker w; every request in flight at
\* that moment, and the new one if there is any, runs concurrently.
Dispatch(w, request, entry) ==
    /\ pc[w] = "idle"
    /\ pc' = [pc EXCEPT ![w] = entry]
    /\ req' = [req EXCEPT ![w] = request]
    /\ overlapped' = [v \in Workers |->
                        IF v = w THEN \E u \in Workers \ {w} : InFlight(u)
                        ELSE IF InFlight(v) THEN TRUE ELSE overlapped[v]]

CalibrateCall(w, request) ==
    /\ Dispatch(w, request, "calibrate")
    /\ UNCHANGED << users, locals, resp, lastLog >>

CalibrateBody(w) ==
    /\ pc[w] = "calibrate"
    /\ lastLog' = "calibrate_received"
    /\ locals' = [locals EXCEPT ![w] = MockResult(req[w])]
    /\ pc' = [pc EXCEPT ![w] = "calibrate_return"]
    /\ UNCHANGED << users, req, resp, overlapped >>

CalibrateReturn(w) ==
    /\ pc[w] = "calibrate_return"
    /\ lastLog' = "calibrate_returning"
    /\ resp' = [resp EXCEPT ![w] = [status |-> 200, body |-> locals[w]]]
    /\ pc' = [pc EXCEPT ![w] = "done"]
    /\ UNCHANGED << users, req, locals, overlapped >>

AnalyzeInvalid(w, request) ==
    /\ ~ValidResult(request.result)
    /\ pc[w] = "idle"
    /\ pc' = [pc EXCEPT ![w] = "done"]
    /\ req' = [req EXCEPT ![w] = request]
    /\ resp' = [resp EXCEPT ![w] =
                  [status |-> 422, body |-> [detail |-> "transform_elements"]]]
    /\ UNCHANGED << users, locals, lastLog, overlapped >>

AnalyzeCall(w, request) ==
    /\ ValidResult(request.result)
    /\ Dispatch(w, request, "analyze")
    /\ UNCHANGED << users, locals, resp, lastLog >>

AnalyzeBody(w) ==
    /\ pc[w] = "analyze"
    /\ lastLog' = "analyze_received"
    /\ locals' = [locals EXCEPT ![w] = [analysis_text |-> AnalysisText(req[w])]]
    /\ pc' = [pc EXCEPT ![w] = "analyze_return"]
    /\ UNCHANGED << users, req, resp, overlapped >>

AnalyzeReturn(w) ==
    /\ pc[w] = "analyze_return"
    /\ lastLog' = "analyze_returning"
    /\ resp' = [resp EXCEPT ![w] =
                  [status |-> 200,
                   body |-> [analysis |-> locals[w].analysis_text]]]
    /\ pc' = [pc EXCEPT ![w] = "done"]
    /\ UNCHANGED << users, req, locals, overlapped >>

ProtectedCall(w, credentials) ==
    /\ Dispatch(w, credentials, "authenticate")
    /\ UNCHANGED << users, locals, resp, lastLog >>

AuthenticateReject(w) ==
    /\ pc[w] = "authenticate"
    /\ ~CorrectCredentials(req[w])
    /\ resp' = [resp EXCEPT ![w] = Unauthorized]
    /\ pc' = [pc EXCEPT ![w] = "done"]
    /\ UNCHANGED << users, req, locals, lastLog, overlapped >>

AuthenticateAccept(w) ==
    /\ pc[w] = "authenticate"
    /\ CorrectCredentials(req[w])
    /\ locals' = [locals EXCEPT ![w] = [username |-> req[w].username]]
    /\ pc' = [pc EXCEPT ![w] = "protected_route"]
    /\ UNCHANGED << users, req, resp, lastLog, overlapped >>

ProtectedRoute(w) ==
    /\ pc[w] = "protected_route"
    /\ resp' = [resp EXCEPT ![w] =
                  [status |-> 200, body |-> Greeting(locals[w].username)]]
    /\ pc' = [pc EXCEPT ![w] = "done"]
    /\ UNCHANGED << users, req, locals, lastLog, overlapped >>

\* The response has been sent; the worker is free again.
Retire(w) ==
    /\ pc[w] = "done"
    /\ pc' = [pc EXCEPT ![w] = "idle"]
    /\ req' = [req EXCEPT ![w] = NoReq]
    /\ locals' = [locals EXCEPT ![w] = NoLocal]
    /\ resp' = [resp EXCEPT ![w] = NoResp]
    /\ overlapped' = [overlapped EXCEPT ![w] = FALSE]
    /\ UNCHANGED << users, lastLog >>

Next ==
    \/ \E w \in Workers, r \in CalibrationRequests : CalibrateCall(w, r)
    \/ \E w \in Workers : CalibrateBody(w)
    \/ \E w \in Workers : CalibrateReturn(w)
    \/ \E w \in Workers, r \in AnalysisRequests : AnalyzeInvalid(w, r)
    \/ \E w \in Workers, r \in AnalysisRequests : AnalyzeCall(w, r)
    \/ \E w \in Workers : AnalyzeBody(w)
    \/ \E w \in Workers : AnalyzeReturn(w)
    \/ \E w \in Workers, c \in Credentials : ProtectedCall(w, c)
    \/ \E w \in Workers : AuthenticateReject(w)
    \/ \E w \in Workers : AuthenticateAccept(w)
    \/ \E w \in Workers : ProtectedRoute(w)
    \/ \E w \in Workers : Retire(w)

Spec == Init /\ [][Next]_vars

\* ----------------------------------------------------------- vocabulary
Done(w, kind) == pc[w] = "done" /\ req[w].kind = kind

IsCalibrationResult(body) ==
    /\ DOMAIN body = {"rmse", "transform_elements", "source_platform",
                      "num_points_used"}
    /\ Len(body.transform_elements) = 16

TypeOK ==
    /\ users \in [{"admin"} -> Passwords]
    /\ pc \in [Workers -> {"idle", "calibrate", "calibrate_return", "analyze",
                           "analyze_return", "authenticate",
                           "protected_route", "done"}]
    /\ overlapped \in [Workers -> BOOLEAN]
    /\ lastLog \in {"none", "calibrate_received", "calibrate_returning",
                    "analyze_received", "analyze_returning"}

\* --------------------------------------------------------------- claims
\* C1: every calibrate request is answered with status 200 and a result that
\* has exactly the fields rmse, transform_elements, source_platform and
\* num_points_used, transform_elements being a sequence of 16 values.
C1_CalibrateAnswers ==
    \A w \in Workers :
        Done(w, "calibrate") =>
            /\ resp[w].status = 200
            /\ IsCalibrationResult(resp[w].body)

C1_Witness ==
    \E w \in Workers :
        /\ Done(w, "calibrate")
        /\ req[w].arw_points = << [x |-> 1, y |-> 2, z |-> 3] >>
        /\ req[w].rwp_points = << [x |-> 4, y |-> 5, z |-> 6] >>
        /\ resp[w].status = 200

\* C2: a calibrate call whose arw_points and rwp_points differ in length
\* fails with the labeled error LengthMismatch and returns no result.
C2_LengthMismatchRejected ==
    \A w \in Workers :
        (Done(w, "calibrate")
           /\ Len(req[w].arw_points) # Len(req[w].rwp_points)) =>
            /\ resp[w].status # 200
            /\ resp[w].body = [error |-> "LengthMismatch"]

C4_IdentityFit ==
    \A w \in Workers :
        (Done(w, "calibrate") /\ req[w].arw_points = req[w].rwp_points) =>
            /\ resp[w].body.transform_elements = Identity4
            /\ resp[w].body.rmse = 0

\* C5: two calibrate calls with identical input, whatever was served before
\* or between them, return the same transform_elements and the same rmse.
C5_Deterministic ==
    \A w1, w2 \in Workers :
        (Done(w1, "calibrate") /\ Done(w2, "calibrate")
           /\ req[w1] = req[w2]) =>
            /\ resp[w1].body.transform_elements
                 = resp[w2].body.transform_elements
            /\ resp[w1].body.rmse = resp[w2].body.rmse

C5_Witness ==
    \E w1, w2 \in Workers :
        /\ w1 # w2
        /\ Done(w1, "calibrate") /\ Done(w2, "calibrate")
        /\ req[w1] = req[w2]
        /\ Len(req[w1].arw_points) = 2
        /\ overlapped[w1] /\ ~overlapped[w2]

\* C6: a well-formed analyze request is answered with status 200 and an
\* analysis that shows result.rmse rounded to 4 decimal places; two requests
\* with the same result.rmse get the same analysis, whatever their prompt,
\* transform_elements, source_platform and num_points_used.
Shown(rmse, q) ==
    "AI Analysis: The received RMSE is " \o (IF rmse < 0 THEN "-" ELSE "")
      \o Fixed4(Abs(q)) \o ". Data parsed successfully."

C6_AnalysisOfRmse ==
    /\ \A w \in Workers :
        (Done(w, "analyze") /\ ValidResult(req[w].result)) =>
            /\ resp[w].status = 200
            /\ DOMAIN resp[w].body = {"analysis"}
            /\ \E q \in { (req[w].result.rmse \div 100) + d : d \in -1..1 } :
                /\ Abs(100 * q - req[w].result.rmse) <= 50
                /\ resp[w].body.analysis = Shown(req[w].result.rmse, q)
    /\ \A w1, w2 \in Workers :
        (Done(w1, "analyze") /\ Done(w2, "analyze")
           /\ ValidResult(req[w1].result) /\ ValidResult(req[w2].result)
           /\ req[w1].result.rmse = req[w2].result.rmse) =>
            resp[w1] = resp[w2]

C6_Witness ==
    \E w1, w2 \in Workers :
        /\ Done(w1, "analyze") /\ Done(w2, "analyze")
        /\ ValidResult(req[w1].result) /\ ValidResult(req[w2].result)
        /\ req[w1].result.rmse = 1251 /\ req[w2].result.rmse = 1251
        /\ req[w1].prompt # req[w2].prompt
        /\ req[w1].result.transform_elements
             # req[w2].result.transform_elements
        /\ req[w1].result.source_platform # req[w2].result.source_platform
        /\ req[w1].result.num_points_used # req[w2].result.num_points_used
        /\ resp[w1].status = 200
        /\ resp[w2].body.analysis =
             "AI Analysis: The received RMSE is 0.0013. Data parsed successfully."

\* C7: the protected route returns its greeting with the caller's username
\* if and only if the username is "admin" and the password is the one stored
\* for admin; every other pair is rejected with 401 and the header
\* WWW-Authenticate: Basic, and gets no greeting.
C7_AuthGate ==
    \A w \in Workers :
        Done(w, "protected") =>
            IF req[w].username = "admin" /\ req[w].password = users["admin"]
            THEN resp[w] =
                   [status |-> 200,
                    body |-> [message |->
                                "Hello, admin. You are authenticated."]]
            ELSE /\ resp[w].status = 401
                 /\ resp[w].headers = [WWWAuthenticate |-> "Basic"]
                 /\ "message" \notin DOMAIN resp[w].body

C7_Witness ==
    \E w1, w2 \in Workers :
        /\ Done(w1, "protected") /\ Done(w2, "protected")
        /\ req[w1].username = "admin" /\ req[w1].password = "password123"
        /\ resp[w1].status = 200
        /\ req[w2].username = "root" /\ req[w2].password = "password123"
        /\ resp[w2].status = 401

\* C8: a calibrate or analyze invocation that ran interleaved with others
\* gives the response the same request gets when it runs alone, and no step
\* of any calibrate, analyze or protected-route call changes users.
SoloAgrees ==
    \A w1, w2 \in Workers :
        (/\ pc[w1] = "done" /\ pc[w2] = "done"
         /\ req[w1].kind \in {"calibrate", "analyze"}
         /\ req[w1] = req[w2]
         /\ ~overlapped[w1]) =>
            resp[w2] = resp[w1]

C8_NoSharedState == [][users' = users /\ SoloAgrees']_vars

C8_Witness ==
    \E w1, w2 \in Workers :
        /\ Done(w1, "analyze") /\ Done(w2, "analyze")
        /\ req[w1] = req[w2]
        /\ ValidResult(req[w1].result)
        /\ ~overlapped[w1] /\ overlapped[w2]
        /\ resp[w1].status = 200
        /\ users["admin"] = "password123"

\* C9: the transform of every result of calibrate, read as a row-major 4x4
\* matrix, has the bottom row 0, 0, 0, 1.
C9_BottomRow ==
    \A w \in Workers :
        Done(w, "calibrate") =>
            /\ Len(resp[w].body.transform_elements) = 16
            /\ SubSeq(resp[w].body.transform_elements, 13, 16)
                 = << 0, 0, 0, 1 >>

C9_Witness ==
    \E w \in Workers :
        /\ Done(w, "calibrate")
        /\ Len(req[w].arw_points) = 2 /\ Len(req[w].rwp_points) = 0
        /\ resp[w].body.transform_elements[16] = 1

\* C10: num_points_used of every result of calibrate is a non-negative
\* integer equal to the number of arw_points, whatever rwp_points is (also
\* when the two lengths differ).
C10_PointsUsed ==
    /\ \A w \in Workers :
        Done(w, "calibrate") =>
            /\ resp[w].body.num_points_used \in Nat
            /\ resp[w].body.num_points_used = Len(req[w].arw_points)
    /\ \A w1, w2 \in Workers :
        (Done(w1, "calibrate") /\ Done(w2, "calibrate")
           /\ req[w1].arw_points = req[w2].arw_points) =>
            resp[w1].body.num_points_used = resp[w2].body.num_points_used

C10_Witness ==
    \E w1, w2 \in Workers :
        /\ Done(w1, "calibrate") /\ Done(w2, "calibrate")
        /\ req[w1].arw_points = req[w2].arw_points
        /\ Len(req[w1].arw_points) = 2
        /\ Len(req[w1].rwp_points) = 0 /\ Len(req[w2].rwp_points) = 3
        /\ resp[w1].body.num_points_used = 2
====
